---- MODULE Spec2Model ----
(***************************************************************************)
(* Model of src/main.py: the embedding client call_vector_service and the  *)
(* batch job batch_refresh_embeddings, run against a PostgreSQL            *)
(* connection (psycopg2, autocommit off) and an external embedding         *)
(* service.  One job is modelled from its start to its return.             *)
(*                                                                         *)
(* Names (tables) are sequences of one-character strings so that the       *)
(* case conversions of the catalog query are computed, not assumed.        *)
(***************************************************************************)
EXTENDS Integers, Sequences, FiniteSets, TLC

\* ---------------------------------------------------------------- bounds
MaxTables == 2
MaxRows == 2
MaxScriptedRows == 10

\* ------------------------------------------------------- names and case

LowerChar(c) ==
  CASE c = "D" -> "d"
    [] c = "O" -> "o"
    [] c = "U" -> "u"
    [] c = "S" -> "s"
    [] OTHER -> c

\* lower(table_name) of the catalog query
Lower(name) == [i \in 1..Len(name) |-> LowerChar(name[i])]

\* base tables that may exist in schema public
StoredNames == { <<"d","o">>, <<"D","o">>, <<"u","s">> }

\* table names a caller may request
RequestNames == { <<"d","o">>, <<"D","o">>, <<"D","O">>, <<"m","i">> }

Schemas == { S \in SUBSET StoredNames : Cardinality(S) <= MaxTables }

\* rank of a character in the collation used by ORDER BY table_name
CharRank(c) ==
  CASE c = "D" -> 1 [] c = "O" -> 2 [] c = "S" -> 3 [] c = "U" -> 4
    [] c = "d" -> 5 [] c = "i" -> 6 [] c = "m" -> 7 [] c = "o" -> 8
    [] c = "s" -> 9 [] c = "u" -> 10 [] OTHER -> 11

RECURSIVE NameLess(_, _)
NameLess(a, b) ==
  IF a = <<>> THEN b # <<>>
  ELSE IF b = <<>> THEN FALSE
  ELSE IF CharRank(Head(a)) # CharRank(Head(b))
       THEN CharRank(Head(a)) < CharRank(Head(b))
       ELSE NameLess(Tail(a), Tail(b))

RECURSIVE SortNames(_)
SortNames(S) ==
  IF S = {} THEN <<>>
  ELSE LET m == CHOOSE x \in S : \A y \in S \ {x} : NameLess(x, y)
       IN  <<m>> \o SortNames(S \ {m})

\* the match without lower(): names compared as they are written
MatchTables_ExactCase(tables, req) == { t \in tables : t = req }

\* WHERE table_schema = 'public' AND table_type = 'BASE TABLE'
\*   AND lower(table_name) = lower(%s)
MatchTables(tables, req) == { t \in tables : Lower(t) = Lower(req) }

\* the listing restricted to the names written in lower case
AllTables_LowerOnly(tables) == SortNames({ t \in tables : Lower(t) = t })

\* SELECT table_name ... ORDER BY table_name; then the list of names
AllTables(tables) == SortNames(tables)

\* f"public.{actual_table_name}"
FullTableName(actual) == <<"p","u","b","l","i","c",".">> \o actual

\* the table an unquoted identifier public.<name> denotes: PostgreSQL folds
\* unquoted identifiers to lower case
FoldIdent(name) == Lower(name)

\* ------------------------------------------------------ embedding client
\* a row's text value: a string or SQL NULL (Python None)
Str(v) == [kind |-> "str", val |-> v]
NULL == [kind |-> "null", val |-> ""]
Texts == { Str("hello"), Str(""), NULL }

\* VECTOR_SERVICE_URL, VECTOR_MODEL, VECTOR_USER: set or not
Configs == [url : BOOLEAN, model : BOOLEAN, user : BOOLEAN]

\* any() in place of all()
ConfigComplete_Any(c) == c.url \/ c.model \/ c.user

\* all([VECTOR_SERVICE_URL, VECTOR_MODEL, VECTOR_USER])
ConfigComplete(c) == c.url /\ c.model /\ c.user

\* a JSON value found under "data" or "embedding": absent, a list, or
\* something that is not a list
Absent == [kind |-> "absent", items |-> <<>>]
NotList == [kind |-> "other", items |-> <<>>]
List(xs) == [kind |-> "list", items |-> xs]

\* first elements of data, for a request made for row src
Elements(src) ==
  { [isdict |-> FALSE, embedding |-> Absent],
    [isdict |-> TRUE, embedding |-> Absent],
    [isdict |-> TRUE, embedding |-> NotList],
    [isdict |-> TRUE, embedding |-> List(<<>>)],
    [isdict |-> TRUE, embedding |-> List(<<src>>)] }

\* what requests.post / raise_for_status / response.json can give for the
\* request made for row src; the vector <<src>> stands for the embedding of
\* that row's text
Responses(src) ==
  { [http |-> "error", isdict |-> TRUE, data |-> Absent] } \cup
  { [http |-> "ok", isdict |-> FALSE, data |-> Absent] } \cup
  { [http |-> "ok", isdict |-> TRUE, data |-> d] :
      d \in {Absent, NotList, List(<<>>)} \cup { List(<<e>>) : e \in Elements(src) } }

\* not x   for a JSON value x
Falsy(x) == x.kind = "absent" \/ (x.kind = "list" /\ x.items = <<>>)

\* the body of the try block after response.json(): the exception raised
\* there, or "ok"
ParseResult(result) ==
  IF ~result.isdict THEN "AttributeError"
  ELSE IF Falsy(result.data) \/ result.data.kind # "list" \/ Len(result.data.items) = 0
       THEN "ValueError"
  ELSE IF ~result.data.items[1].isdict THEN "AttributeError"
  ELSE IF Falsy(result.data.items[1].embedding) \/ result.data.items[1].embedding.kind # "list"
       THEN "ValueError"
  ELSE "ok"

\* the except clauses of call_vector_service: RequestException becomes
\* ConnectionError, every other Exception becomes RuntimeError
Reraise(exc) ==
  CASE exc = "ok" -> "ok"
    [] exc = "RequestException" -> "ConnectionError"
    [] OTHER -> "RuntimeError"

\* why the try block failed: the transport, a response the code itself
\* rejects as malformed (its two raise ValueError), or anything else
Cause(exc) ==
  CASE exc = "ok" -> "ok"
    [] exc = "RequestException" -> "transport"
    [] exc = "ValueError" -> "malformed"
    [] OTHER -> "unknown"

\* a client that treats a null text as the text "None": str(text).strip()
call_vector_service_NullAsText(c, text, resp) ==
  IF ~ConfigComplete(c)
  THEN [err |-> "ValueError", cause |-> "config", net |-> FALSE, embedding |-> <<>>]
  ELSE LET exc == IF resp.http = "error" THEN "RequestException" ELSE ParseResult(resp)
       IN  [err |-> Reraise(exc), cause |-> Cause(exc), net |-> TRUE,
            embedding |-> IF exc = "ok" THEN resp.data.items[1].embedding.items ELSE <<>>]

\* call_vector_service(text) under configuration c, when the service
\* answers resp: the exception class raised ("ok" for none), why, whether
\* the network call was made, and the returned embedding
call_vector_service(c, text, resp) ==
  IF ~ConfigComplete(c)
  THEN [err |-> "ValueError", cause |-> "config", net |-> FALSE, embedding |-> <<>>]
  ELSE IF text.kind = "null"
  THEN [err |-> "AttributeError", cause |-> "null_text", net |-> FALSE, embedding |-> <<>>]
  ELSE LET exc == IF resp.http = "error" THEN "RequestException" ELSE ParseResult(resp)
       IN  [err |-> Reraise(exc), cause |-> Cause(exc), net |-> TRUE,
            embedding |-> IF exc = "ok" THEN resp.data.items[1].embedding.items ELSE <<>>]

\* ------------------------------------------------------------ job state
VARIABLES
  pc,                 \* position in batch_refresh_embeddings
  cfg,                \* the embedding-service configuration of the process
  schema,             \* base tables of schema public in the target database
  requested,          \* params.table_name
  params,             \* the other fields of the request
  ack,                \* what refresh_embeddings returned to the caller
  world,              \* "free", or "scripted": see ScriptedResponses
  conn,               \* the local conn: "None" or "conn"
  connState,          \* the connection: "none", "open", "broken", "closed"
  txn,                \* its transaction: "idle", "active", "aborted"
  actual_table_name,  \* match_table["table_name"], <<>> before resolution
  full_table_name,    \* public.<actual_table_name>
  rows,               \* cur.fetchall() of the SELECT
  idx,                \* rows processed so far
  success_count,
  fail_count,
  pending,            \* row updates of the open transaction
  durable,            \* row updates committed to the table
  rowlog,             \* per processed row: what happened to it
  calls,              \* how often each connection operation was called
  listing,            \* what the not-found diagnostic logged
  commitResult,       \* "none", "returned", "raised"
  result,             \* "running", "returned", "raised"
  logs,               \* the log lines about the rows: nothing to do, progress, tally
  posts,              \* the rows requests.post was called for, in call order
  stmts               \* the SELECT and UPDATE statements sent, by their identifiers

vars == << pc, cfg, schema, requested, params, ack, world, conn, connState, txn, actual_table_name,
           full_table_name, rows, idx, success_count, fail_count, pending,
           durable, rowlog, calls, listing, commitResult, result, logs, posts,
           stmts >>

NoListing == [kind |-> "none", names |-> <<>>]

\* the columns of the base tables
Columns == { "id", "body", "vec" }

\* text column names a caller may send
TextFields == { "body", "nosuch" }

\* the request fields besides table_name
Params ==
  { [db_ip |-> "172.70.10.163", db_port |-> 5432, db_username |-> "root",
     db_password |-> "3or+l2fZ", db_name |-> "nlp_service",
     text_field_name |-> f, vector_field_name |-> "vec"] : f \in TextFields }

NoAck ==
  [status |-> "none", message |-> "",
   received_params |-> [db_ip |-> "", db_name |-> "", table_name |-> <<>>,
                        text_field |-> "", vector_field |-> ""]]

\* the dictionary refresh_embeddings returns, with every request field
Acknowledgment_EchoAll(p, table) ==
  [status |-> "success", message |-> "received, refreshing in the background",
   received_params |-> [db_ip |-> p.db_ip, db_port |-> p.db_port,
                        db_username |-> p.db_username, db_password |-> p.db_password,
                        db_name |-> p.db_name, table_name |-> table,
                        text_field |-> p.text_field_name,
                        vector_field |-> p.vector_field_name]]

\* the dictionary refresh_embeddings returns
Acknowledgment(p, table) ==
  [status |-> "success", message |-> "received, refreshing in the background",
   received_params |-> [db_ip |-> p.db_ip, db_name |-> p.db_name, table_name |-> table,
                        text_field |-> p.text_field_name,
                        vector_field |-> p.vector_field_name]]

NoTally == [logged |-> FALSE, s |-> 0, f |-> 0]

NoLogs == [nothing |-> FALSE, progress |-> {}, tally |-> NoTally]

\* the state of a job before its request is handled
JobStart ==
  /\ pc = "submit"
  /\ ack = NoAck
  /\ logs = NoLogs
  /\ posts = <<>>
  /\ stmts = {}
  /\ conn = "None"
  /\ connState = "none"
  /\ txn = "idle"
  /\ actual_table_name = <<>>
  /\ full_table_name = <<>>
  /\ rows = <<>>
  /\ idx = 0
  /\ success_count = 0
  /\ fail_count = 0
  /\ pending = {}
  /\ durable = {}
  /\ rowlog = <<>>
  /\ calls = [connect |-> 0, catalog |-> 0, fetch |-> 0, update |-> 0,
              commit |-> 0, rollback |-> 0, close |-> 0]
  /\ listing = NoListing
  /\ commitResult = "none"
  /\ result = "running"

\* any configuration, schema and request; the service and the database
\* answer as they like
Init ==
  /\ cfg \in Configs
  /\ schema \in Schemas
  /\ requested \in RequestNames
  /\ params \in Params
  /\ world = "free"
  /\ JobStart

\* a configured service that answers by the text alone, and a table do of up
\* to MaxScriptedRows rows whose row updates succeed
InitScripted ==
  /\ cfg = [url |-> TRUE, model |-> TRUE, user |-> TRUE]
  /\ schema = { <<"d","o">> }
  /\ requested \in { <<"d","o">>, <<"m","i">> }
  /\ params \in { p \in Params : p.text_field_name = "body" }
  /\ world = "scripted"
  /\ JobStart

\* ------------------------------------------------- the database connection
\* How a statement sent on the connection can end.  "ok": executed;
\* "client_error": psycopg2 raised before anything reached the server;
\* "server_error": the server rejected it, which aborts the transaction;
\* "lost": the connection broke; "closed": the connection was already
\* broken; "in_failed_txn": the transaction was already aborted.
StatementOutcomes(cs, tx) ==
  IF cs # "open" THEN {"closed"}
  ELSE IF tx = "aborted" THEN {"in_failed_txn"}
  ELSE {"ok", "client_error", "server_error", "lost"}

ConnAfter(cs, o) == IF o = "lost" THEN "broken" ELSE cs

TxnAfter(tx, o) ==
  CASE o = "ok" -> "active"
    [] o = "server_error" -> "aborted"
    [] o = "lost" -> "idle"
    [] OTHER -> tx

\* the updates of the open transaction after a statement ended with o
PendingAfter(p, o) == IF o \in {"server_error", "lost"} THEN {} ELSE p

Bump(c, f) == [c EXCEPT ![f] = @ + 1]

\* ------------------------------------------------------------- the job
\* refresh_embeddings: hand the job to the background tasks and return the
\* acknowledgment; the background task starts once the response is sent
Trigger ==
  /\ pc = "submit"
  /\ ack' = Acknowledgment(params, requested)
  /\ pc' = "connect"
  /\ UNCHANGED << cfg, schema, requested, params, world, conn, connState, txn,
                  actual_table_name, full_table_name, rows, idx, success_count,
                  fail_count, pending, durable, rowlog, calls, listing, commitResult,
                  result, logs, posts, stmts >>

\* a job that goes on after a failed connect
AfterConnect_GoOn(o) == "register"

\* where psycopg2.connect(...) leaves the job: on, or in the except clause
\* that matches the exception
AfterConnect(o) ==
  CASE o = "ok" -> "register"
    [] o = "psycopg2.Error" -> "except_db"
    [] OTHER -> "except_other"

\* psycopg2.connect(...)
Connect ==
  /\ pc = "connect"
  /\ \E o \in {"ok", "psycopg2.Error", "Exception"} :
       /\ conn' = IF o = "ok" THEN "conn" ELSE "None"
       /\ connState' = IF o = "ok" THEN "open" ELSE "none"
       /\ pc' = AfterConnect(o)
  /\ calls' = Bump(calls, "connect")
  /\ UNCHANGED << cfg, schema, requested, params, ack, world, logs, posts, stmts,
                  txn, actual_table_name, full_table_name,
                  rows, idx, success_count, fail_count, pending, durable, rowlog,
                  listing, commitResult, result >>

\* register_vector(conn); cur = conn.cursor(...)
Register ==
  /\ pc = "register"
  /\ \E o \in StatementOutcomes(connState, txn) \ {"client_error"}, found \in BOOLEAN :
       /\ o # "ok" => found
       /\ connState' = ConnAfter(connState, o)
       /\ txn' = TxnAfter(txn, o)
       /\ pc' = IF o = "ok" /\ found THEN "resolve" ELSE "except_db"
  /\ UNCHANGED << cfg, schema, requested, params, ack, world, logs, posts, stmts,
                  conn, actual_table_name, full_table_name,
                  rows, idx, success_count, fail_count, pending, durable, rowlog,
                  calls, listing, commitResult, result >>

\* the log lines of the not-found branch: the names of all base tables, or
\* the distinct line for a schema without tables
DiagnosticListing(all_tables) ==
  IF all_tables # <<>>
  THEN [kind |-> "tables", names |-> all_tables]
  ELSE [kind |-> "empty", names |-> <<>>]

\* the catalog query raises psycopg2.Error
ResolveError ==
  /\ pc = "resolve"
  /\ \E o \in StatementOutcomes(connState, txn) \ {"ok", "client_error"} :
       /\ connState' = ConnAfter(connState, o)
       /\ txn' = TxnAfter(txn, o)
  /\ calls' = Bump(calls, "catalog")
  /\ pc' = "except_db"
  /\ UNCHANGED << cfg, schema, requested, params, ack, world, logs, posts, stmts,
                  conn, actual_table_name, full_table_name,
                  rows, idx, success_count, fail_count, pending, durable, rowlog,
                  listing, commitResult, result >>

\* match_table = cur.fetchone() is a row: any one of the matching tables
ResolveFound ==
  /\ pc = "resolve"
  /\ "ok" \in StatementOutcomes(connState, txn)
  /\ \E t \in MatchTables(schema, requested) :
       /\ actual_table_name' = t
       /\ full_table_name' = FullTableName(t)
  /\ txn' = TxnAfter(txn, "ok")
  /\ calls' = Bump(calls, "catalog")
  /\ pc' = "fetch"
  /\ UNCHANGED << cfg, schema, requested, params, ack, world, logs, posts, stmts,
                  conn, connState, rows, idx, success_count,
                  fail_count, pending, durable, rowlog, listing, commitResult, result >>

\* match_table is None: list all base tables, log them, return
ResolveNotFound ==
  /\ pc = "resolve"
  /\ "ok" \in StatementOutcomes(connState, txn)
  /\ MatchTables(schema, requested) = {}
  /\ \E o \in {"ok", "server_error", "lost"} :
       /\ connState' = ConnAfter(connState, o)
       /\ txn' = TxnAfter("active", o)
       /\ listing' = IF o = "ok" THEN DiagnosticListing(AllTables(schema)) ELSE listing
       /\ pc' = IF o = "ok" THEN "finally" ELSE "except_db"
  /\ calls' = Bump(Bump(calls, "catalog"), "catalog")
  /\ UNCHANGED << cfg, schema, requested, params, ack, world, logs, posts, stmts,
                  conn, actual_table_name, full_table_name,
                  rows, idx, success_count, fail_count, pending, durable, rowlog,
                  commitResult, result >>

Resolve == ResolveError \/ ResolveFound \/ ResolveNotFound

\* the orders in which a fetch may return the identifiers of n rows
IdOrders(n) == { [i \in 1..n |-> i], [i \in 1..n |-> n + 1 - i] }

\* the row sets a table may hold
RowSets ==
  UNION { { [i \in 1..n |-> [id |-> ids[i], text |-> texts[i]]] :
              ids \in IdOrders(n), texts \in [1..n -> Texts] } : n \in 0..MaxRows }

\* a scripted table: up to MaxScriptedRows rows with empty or non-empty text
ScriptedRowSets ==
  UNION { { [i \in 1..n |-> [id |-> i, text |-> texts[i]]] :
              texts \in [1..n -> {Str("hello"), Str("")}] } : n \in 0..MaxScriptedRows }

RowSetsIn(w) == IF w = "scripted" THEN ScriptedRowSets ELSE RowSets

\* how SELECT id, "<text column>" AS text FROM public.<actual> can end: the
\* unquoted path denotes the table with the folded name, the quoted column
\* name is taken as written
FetchOutcomes(tables, actual, field) ==
  IF FoldIdent(actual) \in tables /\ field \in Columns
  THEN {"ok", "server_error", "lost"}
  ELSE {"server_error", "lost"}

\* the identifiers interpolated into the SELECT
SelectStatement(table, field) == [op |-> "SELECT", table |-> table, column |-> field]

\* the identifiers interpolated into the UPDATE
UpdateStatement(table, field) == [op |-> "UPDATE", table |-> table, column |-> field]

\* without the return of the zero-row branch
AfterFetch_NoReturn(total) == IF total = 0 THEN "commit" ELSE "loop"

\* if total == 0: log, return
AfterFetch(total) == IF total = 0 THEN "finally" ELSE "loop"

\* cur.execute(query); rows = cur.fetchall(); return when there are none
Fetch ==
  /\ pc = "fetch"
  /\ \E o \in FetchOutcomes(schema, actual_table_name, params.text_field_name) :
       /\ connState' = ConnAfter(connState, o)
       /\ txn' = TxnAfter(txn, o)
       /\ IF o = "ok"
          THEN \E rs \in RowSetsIn(world) :
                 /\ rows' = rs
                 /\ logs' = [logs EXCEPT !.nothing = (Len(rs) = 0)]
                 /\ pc' = AfterFetch(Len(rs))
          ELSE /\ rows' = rows
               /\ logs' = logs
               /\ pc' = "except_db"
  /\ stmts' = stmts \cup {SelectStatement(full_table_name, params.text_field_name)}
  /\ calls' = Bump(calls, "fetch")
  /\ UNCHANGED << cfg, schema, requested, params, ack, world, posts, conn,
                  actual_table_name, full_table_name,
                  idx, success_count, fail_count, pending, durable, rowlog,
                  listing, commitResult, result >>

\* success_count += 1 after an embedding and an update that raised nothing
SuccessAfter(sc, err) == IF err = "ok" THEN sc + 1 ELSE sc

\* a handler that counts the failures of the embedding call only
FailAfter_EmbeddingOnly(fc, err) == IF err \notin {"ok", "psycopg2.Error"} THEN fc + 1 ELSE fc

\* except Exception: fail_count += 1
FailAfter(fc, err) == IF err # "ok" THEN fc + 1 ELSE fc

\* break in place of continue
AfterRow_Break(i, total, err) == IF i < total /\ err = "ok" THEN "loop" ELSE "commit"

\* continue: the loop goes on to the next row whatever happened to this one
AfterRow(i, total, err) == IF i < total THEN "loop" ELSE "commit"

\* the answer of a scripted service: a vector for a non-empty text, an
\* HTTP error for an empty one
ScriptedResponse(src, text) ==
  IF text.val = ""
  THEN [http |-> "error", isdict |-> TRUE, data |-> Absent]
  ELSE [http |-> "ok", isdict |-> TRUE,
        data |-> List(<< [isdict |-> TRUE, embedding |-> List(<<src>>)] >>)]

ResponsesIn(w, src, text) ==
  IF w = "scripted" THEN {ScriptedResponse(src, text)} ELSE Responses(src)

\* in the scripted world the UPDATE statements succeed
UpdateOutcomesIn(w, cs, tx) ==
  IF w = "scripted" THEN {"ok"} ELSE StatementOutcomes(cs, tx)

\* a client that repeats the request once after a transport failure
PostsFor_RetryOnce(i, r) ==
  IF ~r.net THEN <<>> ELSE IF r.cause = "transport" THEN <<i, i>> ELSE <<i>>

\* requests.post is called once in a call that gets as far as the try block
PostsFor(i, r) == IF r.net THEN <<i>> ELSE <<>>

\* idx % 10
ProgressEvery == 10

\* if idx % 10 == 0: logger.info(...), on the line after success_count += 1
ProgressLogged(i, err) == err = "ok" /\ i % ProgressEvery = 0

\* one iteration of the row loop
ProcessRow ==
  /\ pc = "loop"
  /\ LET i == idx + 1
         record_id == rows[i].id
         text == rows[i].text
     IN  \E resp \in ResponsesIn(world, i, text) :
           LET r == call_vector_service(cfg, text, resp)
           IN  \E o \in IF r.err = "ok" THEN UpdateOutcomesIn(world, connState, txn)
                                        ELSE {"none"} :
                 LET err == IF r.err # "ok" THEN r.err
                            ELSE IF o = "ok" THEN "ok" ELSE "psycopg2.Error"
                 IN  /\ connState' = ConnAfter(connState, o)
                     /\ txn' = TxnAfter(txn, o)
                     /\ pending' = IF o = "ok"
                                   THEN pending \cup {[id |-> record_id, vec |-> r.embedding]}
                                   ELSE PendingAfter(pending, o)
                     /\ calls' = IF o = "none" THEN calls ELSE Bump(calls, "update")
                     /\ success_count' = SuccessAfter(success_count, err)
                     /\ fail_count' = FailAfter(fail_count, err)
                     /\ rowlog' = Append(rowlog, [id |-> record_id, err |-> err,
                                                  cause |-> r.cause,
                                                  net |-> r.net, emb |-> r.err = "ok",
                                                  upd |-> o])
                     /\ posts' = posts \o PostsFor(i, r)
                     /\ stmts' = IF o = "none" THEN stmts
                                 ELSE stmts \cup {UpdateStatement(full_table_name,
                                                                  params.vector_field_name)}
                     /\ logs' = IF ProgressLogged(i, err)
                                THEN [logs EXCEPT !.progress = @ \cup {i}]
                                ELSE logs
                     /\ idx' = i
                     /\ pc' = AfterRow(i, Len(rows), err)
  /\ UNCHANGED << cfg, schema, requested, params, ack, world, conn,
                  actual_table_name, full_table_name,
                  rows, durable, listing, commitResult, result >>

\* how conn.commit() can end; on an aborted transaction the server answers
\* the COMMIT with a rollback and psycopg2 raises nothing
CommitOutcomes(cs, tx) ==
  IF cs # "open" THEN {"closed"}
  ELSE IF tx = "aborted" THEN {"rolled_back"}
  ELSE {"ok", "server_error", "lost"}

\* the tally with the two counters exchanged
Tally_Swapped(sc, fc) == [logged |-> TRUE, s |-> fc, f |-> sc]

\* the final log line: succeeded, failed
Tally(sc, fc) == [logged |-> TRUE, s |-> sc, f |-> fc]

\* conn.commit() and the final log line
Commit ==
  /\ pc = "commit"
  /\ \E o \in CommitOutcomes(connState, txn) :
       /\ connState' = ConnAfter(connState, o)
       /\ durable' = IF o = "ok" THEN durable \cup pending ELSE durable
       /\ commitResult' = IF o \in {"ok", "rolled_back"} THEN "returned" ELSE "raised"
       /\ pc' = IF o \in {"ok", "rolled_back"} THEN "finally" ELSE "except_db"
       /\ logs' = IF o \in {"ok", "rolled_back"}
                  THEN [logs EXCEPT !.tally = Tally(success_count, fail_count)]
                  ELSE logs
  /\ txn' = "idle"
  /\ pending' = {}
  /\ calls' = Bump(calls, "commit")
  /\ UNCHANGED << cfg, schema, requested, params, ack, world, posts, stmts, conn,
                  actual_table_name, full_table_name,
                  rows, idx, success_count, fail_count, rowlog, listing, result >>

\* the test inverted: if not conn
NeedsRollback_Inverted(c) == c = "None"

\* if conn: (in the psycopg2.Error handler)
NeedsRollback(c) == c # "None"

\* how conn.rollback() can end
RollbackOutcomes(cs) == IF cs = "open" THEN {"ok", "lost"} ELSE {"closed"}

\* except psycopg2.Error: roll back if there is a connection, then log; an
\* exception of conn.rollback() leaves the handler and the function
ExceptDb ==
  /\ pc = "except_db"
  /\ IF NeedsRollback(conn)
     THEN \E o \in RollbackOutcomes(connState) :
            /\ connState' = ConnAfter(connState, o)
            /\ result' = IF o = "ok" THEN result ELSE "raising"
            /\ calls' = Bump(calls, "rollback")
            /\ txn' = "idle"
            /\ pending' = {}
     ELSE UNCHANGED << connState, result, calls, txn, pending >>
  /\ pc' = "finally"
  /\ UNCHANGED << cfg, schema, requested, params, ack, world, logs, posts, stmts,
                  conn, actual_table_name, full_table_name,
                  rows, idx, success_count, fail_count, durable, rowlog, listing,
                  commitResult >>

\* except Exception: log
ExceptOther ==
  /\ pc = "except_other"
  /\ pc' = "finally"
  /\ UNCHANGED << cfg, schema, requested, params, ack, world, logs, posts, stmts,
                  conn, connState, txn, actual_table_name,
                  full_table_name, rows, idx, success_count, fail_count, pending,
                  durable, rowlog, calls, listing, commitResult, result >>

\* the test inverted: if not conn
NeedsClose_Inverted(c) == c = "None"

\* a finally clause that closes nothing
NeedsClose_Never(c) == FALSE

\* if conn: (in the finally clause)
NeedsClose(c) == c # "None"

\* finally: close the connection if there is one; the function then returns,
\* or raises what left the handler
Finally ==
  /\ pc = "finally"
  /\ IF NeedsClose(conn)
     THEN /\ connState' = "closed"
          /\ calls' = Bump(calls, "close")
          /\ txn' = "idle"
          /\ pending' = {}
     ELSE UNCHANGED << connState, calls, txn, pending >>
  /\ result' = IF result = "raising" THEN "raised" ELSE "returned"
  /\ pc' = "done"
  /\ UNCHANGED << cfg, schema, requested, params, ack, world, logs, posts, stmts,
                  conn, actual_table_name, full_table_name,
                  rows, idx, success_count, fail_count, durable, rowlog, listing,
                  commitResult >>

Next ==
  \/ Trigger
  \/ Connect
  \/ Register
  \/ Resolve
  \/ Fetch
  \/ ProcessRow
  \/ Commit
  \/ ExceptDb
  \/ ExceptOther
  \/ Finally

Spec == Init /\ [][Next]_vars

SpecScripted == InitScripted /\ [][Next]_vars

\* the job is a single thread of control: whenever it has a next step it
\* takes it, given that every external call returns or fails
FairSpec == Init /\ [][Next]_vars /\ WF_vars(Next)

TypeOK ==
  /\ pc \in {"submit", "connect", "register", "resolve", "fetch", "loop", "commit",
             "except_db", "except_other", "finally", "done"}
  /\ conn \in {"None", "conn"}
  /\ connState \in {"none", "open", "broken", "closed"}
  /\ txn \in {"idle", "active", "aborted"}
  /\ idx \in 0..Len(rows)
  /\ result \in {"running", "raising", "returned", "raised"}

\* ---------------------------------------------------------------- claims
Range(f) == { f[i] : i \in DOMAIN f }

LoopFinished == pc = "commit" \/ calls.commit > 0

JobCompleted == pc = "done" /\ commitResult = "returned"

\* C1: after k rows have been processed the success and failure counters
\* sum to k, and when the row loop has finished they sum to the number of
\* fetched rows.
C1_CountersSum ==
  /\ success_count + fail_count = Len(rowlog)
  /\ Len(rowlog) = idx
  /\ LoopFinished => success_count + fail_count = Len(rows)

C1_Witness ==
  /\ pc = "done"
  /\ Len(rows) >= 2
  /\ success_count >= 1
  /\ \E i \in 1..Len(rowlog) : rowlog[i].upd \in {"client_error", "server_error"}

\* C2: once the job has left the row loop, every row that follows a failed
\* row in fetch order has been attempted (its embedding call was made), so
\* no row failure ends the loop early.
C2_FaultIsolation ==
  pc # "loop" =>
    \A r1, r2 \in 1..Len(rows) :
      (r1 < r2 /\ r1 <= Len(rowlog) /\ rowlog[r1].err # "ok")
        => (r2 <= Len(rowlog) /\ rowlog[r2].id = rows[r2].id)

C2_Witness ==
  /\ pc = "done"
  /\ Len(rowlog) >= 2
  /\ rowlog[1].err = "ConnectionError"
  /\ rowlog[2].net
  /\ rowlog[2].err = "ok"

\* C3 as stated: on every exit path the connection is closed exactly once.
C3_ClosedOnceOnEveryPath == pc = "done" => calls.close = 1

\* C3 amended: the connection is never closed twice; a job that obtained a
\* connection has closed it exactly once when it ends, on every exit path
\* (success, table not found, commit failure, any other failure); a job
\* whose connect failed has no connection and closes nothing.
C3_ClosedOnceIfConnected ==
  /\ calls.close <= 1
  /\ pc = "done" => calls.close = (IF conn = "conn" THEN 1 ELSE 0)
  /\ (pc = "done" /\ conn = "conn") => connState = "closed"
  /\ conn = "None" => connState = "none"

C3_Witness ==
  /\ pc = "done"
  /\ commitResult = "raised"
  /\ calls.close = 1

NoCaseInsensitiveMatch == \A t \in schema : Lower(t) # Lower(requested)

\* C4: when no base table matches the requested name case-insensitively, the
\* job fetches no rows, calls the embedding service for none, issues no
\* UPDATE and no commit, and the listing it logs holds exactly the base
\* tables of the schema, an empty schema being reported by a distinct line.
C4_NotFoundIsNoOp ==
  NoCaseInsensitiveMatch =>
    /\ calls.fetch = 0
    /\ rowlog = <<>>
    /\ calls.update = 0
    /\ calls.commit = 0
    /\ durable = {}
    /\ listing.kind # "none" =>
         /\ Range(listing.names) = schema
         /\ Len(listing.names) = Cardinality(schema)
         /\ listing.kind = "empty" <=> schema = {}
    /\ (pc = "done" /\ result = "returned" /\ calls.rollback = 0 /\ conn = "conn")
         => listing.kind # "none"

C4_Witness ==
  /\ pc = "done"
  /\ listing.kind = "tables"
  /\ Len(listing.names) = 2
  /\ \E i \in 1..2 : Lower(listing.names[i]) # listing.names[i]

Public(t) == <<"p","u","b","l","i","c",".">> \o t

Resolved == actual_table_name # <<>>

\* C5 as stated: every stored table whose name differs from the requested
\* one only in case is the one the resolution yields.
C5_ResolvesToEveryVariant ==
  /\ (\E t \in schema : Lower(t) = Lower(requested)) => listing.kind = "none"
  /\ Resolved =>
       \A t \in schema : Lower(t) = Lower(requested) => full_table_name = Public(t)

\* C5 amended: a request that differs only in case from a stored table is
\* never reported as not found, and when that table is the only base table
\* matching case-insensitively the resolved path is public.<its stored name>
\* whatever the case of the request; with several case variants stored, the
\* path is that of one of them.
C5_CaseInsensitive ==
  /\ (\E t \in schema : Lower(t) = Lower(requested)) => listing.kind = "none"
  /\ Resolved =>
       /\ \E t \in schema : Lower(t) = Lower(requested) /\ full_table_name = Public(t)
       /\ \A t \in schema :
            { u \in schema : Lower(u) = Lower(requested) } = {t}
              => full_table_name = Public(t)

C5_Witness ==
  /\ Resolved
  /\ requested = <<"D","O">>
  /\ full_table_name = <<"p","u","b","l","i","c",".","d","o">>

\* C6: with the service URL, the model or the account not configured, no
\* row succeeds, every processed row fails with the configuration error
\* without a network call or an UPDATE, and after the loop the failure
\* counter equals the number of fetched rows.
C6_ConfigMissing ==
  ~(cfg.url /\ cfg.model /\ cfg.user) =>
    /\ success_count = 0
    /\ fail_count = Len(rowlog)
    /\ \A i \in 1..Len(rowlog) :
         /\ rowlog[i].err = "ValueError"
         /\ ~rowlog[i].net
         /\ rowlog[i].upd = "none"
    /\ LoopFinished => fail_count = Len(rows)

C6_Witness ==
  /\ JobCompleted
  /\ cfg.url /\ cfg.model /\ ~cfg.user
  /\ fail_count = 2
  /\ rows[1].text = NULL

UpdatedIds == { u.id : u \in durable }

\* C7: in a job that completes, an UPDATE was issued for exactly the rows
\* whose embedding call succeeded, every updated row holds the vector made
\* from its own text, no row whose embedding call failed is updated, and
\* the success counter equals the number of rows updated.
C7_UpdatesMatchSuccesses ==
  JobCompleted =>
    /\ \A i \in 1..Len(rowlog) : rowlog[i].emb <=> rowlog[i].upd # "none"
    /\ \A u \in durable : \E i \in 1..Len(rows) : rows[i].id = u.id /\ u.vec = <<i>>
    /\ \A i \in 1..Len(rowlog) : ~rowlog[i].emb => rowlog[i].id \notin UpdatedIds
    /\ success_count = Cardinality(UpdatedIds)

\* C8: the job never raises to its caller.
C8_NeverRaises == result # "raised"

\* C9: a failing UPDATE is counted as a failure of its row, and in a job
\* that completes, the rows whose UPDATE was executed are the rows updated
\* by the commit, whatever failed for other rows.
C9_UpdateFailureIsolated ==
  /\ \A i \in 1..Len(rowlog) :
       rowlog[i].upd \notin {"none", "ok"} => rowlog[i].err = "psycopg2.Error"
  /\ JobCompleted =>
       \A i \in 1..Len(rowlog) : rowlog[i].upd = "ok" => rowlog[i].id \in UpdatedIds

\* C10: commit is called at most once and only after every fetched row has
\* been processed; nothing is durable unless that commit returned; when the
\* commit raised, nothing is durable and the rollback was called before the
\* connection was closed.
C10_SingleTransaction ==
  /\ calls.commit <= 1
  /\ calls.commit >= 1 => (calls.fetch = 1 /\ Len(rows) > 0 /\ Len(rowlog) = Len(rows))
  /\ durable # {} => commitResult = "returned"
  /\ commitResult = "raised" => durable = {}
  /\ (commitResult = "raised" /\ pc \in {"finally", "done"}) => calls.rollback = 1
  /\ calls.close >= 1 => pc = "done"

C10_Witness ==
  /\ pc = "done"
  /\ commitResult = "raised"
  /\ calls.rollback = 1
  /\ success_count >= 1

\* C11 as stated: a job whose fetch returned no rows issues a commit before
\* it ends.
C11_ZeroRowsCommit == (pc = "done" /\ logs.nothing) => calls.commit = 1

\* C11 amended: a job whose fetch returned no rows logs that there is
\* nothing to do and goes straight to the release of the connection: no
\* commit is issued, no row is processed, no tally is logged, and the
\* connection is closed once.
C11_ZeroRowsSkipCommit ==
  /\ logs.nothing =>
       /\ rows = <<>>
       /\ calls.fetch = 1
       /\ rowlog = <<>>
       /\ calls.commit = 0
       /\ commitResult = "none"
       /\ ~logs.tally.logged
       /\ pc \in {"finally", "done"}
  /\ (pc = "done" /\ calls.fetch = 1 /\ rows = <<>> /\ calls.rollback = 0) => logs.nothing
  /\ (pc = "done" /\ logs.nothing) => (calls.close = 1 /\ result = "returned")

C11_Witness == pc = "done" /\ logs.nothing /\ connState = "closed"

\* C12 as stated: every job that has ended has logged the final tally.
C12_TallyOnEveryPath == pc = "done" => logs.tally.logged

\* C12 amended: the final tally is logged exactly by the jobs whose commit
\* returned normally, with the values of the two counters, which sum to the
\* number of fetched rows; a job that ends any other way logs no tally.
C12_TallyOnlyAfterCommit ==
  /\ logs.tally.logged <=> commitResult = "returned"
  /\ logs.tally.logged =>
       /\ logs.tally.s = success_count
       /\ logs.tally.f = fail_count
       /\ logs.tally.s + logs.tally.f = Len(rows)
  /\ (pc = "done" /\ commitResult # "returned") => ~logs.tally.logged

C12_Witness ==
  /\ pc = "done"
  /\ logs.tally.logged
  /\ logs.tally.s = 2
  /\ logs.tally.f = 0

AckFields == { "db_ip", "db_name", "table_name", "text_field", "vector_field" }

\* C13: the acknowledgment is produced at submission, before the job has
\* taken any step, and never changes afterwards whatever the job does; it
\* echoes host, database, table and column names and nothing else, so not
\* the password.
C13_AckImmediate ==
  /\ [](pc # "submit" =>
          /\ ack.status = "success"
          /\ DOMAIN ack.received_params = AckFields
          /\ ack.received_params.db_ip = params.db_ip
          /\ ack.received_params.db_name = params.db_name
          /\ ack.received_params.table_name = requested
          /\ ack.received_params.text_field = params.text_field_name
          /\ ack.received_params.vector_field = params.vector_field_name
          /\ \A k \in AckFields \ {"table_name"} :
               ack.received_params[k] # params.db_password)
  /\ [][ack' # ack => (pc = "submit" /\ calls.connect = 0 /\ result = "running")]_vars

C13_Witness ==
  /\ pc = "done"
  /\ result = "raised"
  /\ ack.status = "success"
  /\ ack.received_params.table_name = requested

\* the steps of the state machine, in their order
Step(p) ==
  CASE p = "submit" -> 0
    [] p = "connect" -> 1
    [] p = "register" -> 2
    [] p = "resolve" -> 3
    [] p = "fetch" -> 4
    [] p = "loop" -> 5
    [] p = "commit" -> 6
    [] p \in {"except_db", "except_other"} -> 7
    [] p = "finally" -> 8
    [] OTHER -> 9

\* C14: the job moves forward through its steps only, the row loop being
\* the one step it stays in; after a failed connect it goes to the release
\* without a catalog query, fetch, row or commit; rows are fetched and
\* processed only after the table was resolved; and nothing is called on
\* the connection once it is closed.
C14_StepOrder ==
  /\ [][Step(pc') > Step(pc) \/ (pc = "loop" /\ pc' = "loop")]_vars
  /\ [](conn = "None" =>
          /\ pc \in {"submit", "connect", "except_db", "except_other", "finally", "done"}
          /\ calls.catalog = 0 /\ calls.fetch = 0 /\ calls.update = 0
          /\ calls.commit = 0 /\ rowlog = <<>>)
  /\ []((calls.fetch > 0 \/ rowlog # <<>> \/ calls.update > 0) => Resolved)
  /\ [](connState = "closed" => pc = "done")
  /\ [][connState = "closed" => calls' = calls]_vars

C14_Witness ==
  /\ pc = "done"
  /\ commitResult = "returned"
  /\ Len(rowlog) = 2
  /\ calls.catalog = 1

\* C15: the rows are processed in fetch order; the embedding service is
\* requested at most once per row and in row order; and a request is made
\* for a row only when the outcome of every earlier row has been counted.
C15_SequentialOnce ==
  /\ [](/\ \A i \in 1..Len(rowlog) : rowlog[i].id = rows[i].id
        /\ \A a, b \in 1..Len(posts) : a < b => posts[a] < posts[b]
        /\ \A a \in 1..Len(posts) : posts[a] <= Len(rowlog))
  /\ [][posts' # posts =>
          /\ posts' = Append(posts, idx + 1)
          /\ success_count + fail_count = idx
          /\ success_count' + fail_count' = idx + 1]_vars

C15_Witness ==
  /\ pc = "done"
  /\ posts = <<1, 2>>
  /\ rowlog[1].cause = "transport"
  /\ rowlog[2].err = "ok"

\* C16: every SELECT and UPDATE of a job names the table by the resolved
\* path, and every column name in them is a column of the catalog.
C16_IdentifiersValidated ==
  \A st \in stmts :
    /\ Resolved
    /\ st.table = full_table_name
    /\ st.column \in Columns

\* C17: a response rejected as malformed fails with an exception class
\* other than the one of an unexpected exception, of a transport failure
\* and of a missing configuration.
C17_DistinctFailureClasses ==
  \A i, j \in 1..Len(rowlog) :
    (rowlog[i].cause = "malformed" /\ rowlog[j].cause \in {"unknown", "transport", "config"})
      => rowlog[i].err # rowlog[j].err

\* C18: a progress line has been logged for every processed row whose
\* position is a multiple of 10, whether the row succeeded or failed.
C18_ProgressEveryTen ==
  \A k \in 1..Len(rowlog) : k % ProgressEvery = 0 => k \in logs.progress

\* C19: every job ends, and when it has ended its connection is not open.
C19_Terminates ==
  /\ <>(pc = "done")
  /\ [](pc = "done" => (connState \in {"none", "closed"} /\ result \in {"returned", "raised"}))

C19_Witness ==
  /\ pc = "done"
  /\ connState = "closed"
  /\ Len(rowlog) = 2
  /\ calls.commit = 1

\* C20: a row whose text is null is counted as one failure, without a
\* request to the service and without an UPDATE, and the rows after it are
\* still processed.
C20_NullTextIsRowFailure ==
  /\ \A i \in 1..Len(rowlog) :
       rows[i].text = NULL =>
         /\ rowlog[i].err # "ok"
         /\ ~rowlog[i].net
         /\ rowlog[i].upd = "none"
         /\ \A a \in 1..Len(posts) : posts[a] # i
  /\ fail_count = Cardinality({ i \in 1..Len(rowlog) : rowlog[i].err # "ok" })
  /\ (pc # "loop" /\ \E i \in 1..Len(rows) : rows[i].text = NULL) => Len(rowlog) = Len(rows)

C20_Witness ==
  /\ pc = "done"
  /\ cfg.url /\ cfg.model /\ cfg.user
  /\ Len(rowlog) = 2
  /\ rows[1].text = NULL
  /\ rowlog[1].err = "AttributeError"
  /\ rowlog[2].err = "ok"

====
